---- MODULE Spec2Model ----
(***************************************************************************)
(* A model of the RAR block decoder (hachoir_parser/archive/rar.py) and of *)
(* the lazily computed parser properties (hachoir_parser/parser.py).       *)
(*                                                                         *)
(* The input stream is a sequence of bytes.  Addresses and field sizes are *)
(* counted in bits, as the field sets do; the byte order and the bit order *)
(* are little-endian (RarFile.endian).  A field set's createFields is a    *)
(* generator: every `yield` appends one field at the current address, and  *)
(* an exception raised inside it ends the generator.                       *)
(***************************************************************************)
EXTENDS Integers, Sequences, FiniteSets, TLC

VARIABLES
    stream,         \* the input bytes handed to the parser
    validate,       \* the validate=... keyword argument of Parser.__init__
    pc,             \* "new" | "ready" | "done" | "failed" | "invalid"
    pos,            \* current size of the root field set, in bits
    blocks,         \* the BlockHead field sets yielded so far, in stream order
    error,          \* the exception that ended construction or feeding
    message,        \* the text of the ValidateError raised by construction
    cache,          \* the instance attributes the property getters keep
    calls,          \* how many times each create* method was invoked
    accesses,       \* how many times each property was read
    result          \* what the last read of each property gave the caller

vars == <<stream, validate, pc, pos, blocks, error, message, cache, calls, accesses, result>>

(***************************************************************************)
(* Bounds of the model.                                                    *)
(***************************************************************************)
MaxNameLen == 2     \* longest filename generated for a File block
MaxExtra   == 2     \* most spare header bytes declared by a File block
MaxAdded   == 2     \* largest added_size generated
MaxAccess  == 2     \* reads of one property on one instance

(***************************************************************************)
(* The stream: bytes, read little-endian.                                  *)
(***************************************************************************)
StreamBits == 8 * Len(stream)

ByteAt(a) == stream[(a \div 8) + 1]

BitAt(a) == (ByteAt(a) \div (2 ^ (a % 8))) % 2

RECURSIVE ReadBits(_, _)
ReadBits(a, n) ==
    IF n = 0 THEN 0 ELSE BitAt(a) + 2 * ReadBits(a + 1, n - 1)

ReadBytes(a, nbytes) ==
    [i \in 1..nbytes |-> stream[(a \div 8) + i]]

\* the value a field of the given kind has at address a
FieldValue(kind, a, size) ==
    IF kind = "int" THEN ReadBits(a, size) ELSE ReadBytes(a, size \div 8)

(***************************************************************************)
(* A field set being fed: the address reached, the fields yielded so far   *)
(* (name and size), their values, the class and name of the block variant  *)
(* and the exception raised, if any.                                       *)
(***************************************************************************)
\* F(v), with v evaluated once
Let(v, F(_)) == CHOOSE r \in {F(x) : x \in {v}} : TRUE

NewFieldSet(start) ==
    [start |-> start, pos |-> start, fields |-> <<>>, vals |-> <<>>,
     class |-> "none", name |-> "none", desc |-> "none", err |-> "none"]

Has(st, name) == name \in DOMAIN st.vals

Val(st, name) == IF Has(st, name) THEN st.vals[name] ELSE 0

\* raise e, unless an earlier exception already ended the generator
Raise(st, e) ==
    Let(st, LAMBDA s : IF s.err # "none" THEN s ELSE [s EXCEPT !.err = e])

\* yield one field of `size` bits
Yield(st, name, kind, size) ==
    Let(st, LAMBDA s :
        IF s.err # "none" THEN s
        ELSE IF size <= 0 THEN Raise(s, "FieldError")
        ELSE IF s.pos + size > StreamBits THEN Raise(s, "EndOfStream")
        ELSE [s EXCEPT !.pos = s.pos + size,
                       !.fields = Append(s.fields, [name |-> name, size |-> size]),
                       !.vals = (name :> FieldValue(kind, s.pos, size)) @@ s.vals])

UInt8(st, name)       == Yield(st, name, "int", 8)
UInt16(st, name)      == Yield(st, name, "int", 16)
UInt32(st, name)      == Yield(st, name, "int", 32)
RawBytes(st, name, n) == Yield(st, name, "raw", 8 * n)
String(st, name, n)   == Yield(st, name, "raw", 8 * n)

\* yield a run of integer fields, each <<name, size in bits>>
RECURSIVE YieldAll(_, _)
YieldAll(st, specs) ==
    IF specs = <<>> THEN st
    ELSE YieldAll(Yield(st, specs[1][1], "int", specs[1][2]), Tail(specs))

Enter(st, class, name, desc) ==
    [st EXCEPT !.class = class, !.name = name, !.desc = desc]

(***************************************************************************)
(* The block variants (rar.py).                                            *)
(***************************************************************************)
block_name ==
    (114 :> "Marker") @@ (115 :> "Archive") @@ (116 :> "File") @@
    (117 :> "Comment") @@ (118 :> "Extra info") @@ (119 :> "Subblock") @@
    (120 :> "Recovery record") @@ (121 :> "Archive authenticity") @@
    (122 :> "New-format subblock") @@ (123 :> "Archive end")

magic == <<82, 97, 114, 33, 26, 7, 0>>

\* the 16 flag bits every variant but Archive and File starts with
BaseFlags ==
    << <<"flags_bits1", 8>>, <<"has_extended_size", 1>>,
       <<"is_ignorable", 1>>, <<"flags_bits2", 6>> >>

\* yield an integer field when the flag read earlier is set
YieldIf(st, flag, name, kind, size) ==
    Let(st, LAMBDA s :
        IF Val(s, flag) # 0 THEN Yield(s, name, kind, size) ELSE s)

\* the size of the "unknown" payload DefaultBlock reads, in bytes: the
\* local `size` after `size += self["added_size"].value`
DefaultBodySizeNoAdd(st) == Val(st, "head_size")
DefaultBodySize(st) ==
    IF Val(st, "has_extended_size") # 0
    THEN Val(st, "head_size") + Val(st, "added_size")
    ELSE Val(st, "head_size")

DefaultBody(st) ==
    Let(st, LAMBDA s :
        IF DefaultBodySize(s) > 0
        THEN RawBytes(s, "unknown", DefaultBodySize(s)) ELSE s)

DefaultBlock(st0, name, desc) ==
    LET s1 == Enter(st0, "DefaultBlock", name, desc)
        s2 == YieldAll(s1, BaseFlags)
        s3 == UInt16(s2, "head_size")
        s4 == YieldIf(s3, "has_extended_size", "added_size", "int", 32)
    IN  DefaultBody(s4)

MarkerBlock(st0, name, desc) ==
    LET s1 == Enter(st0, "MarkerBlock", name, desc)
        s2 == YieldAll(s1, BaseFlags)
    IN  UInt16(s2, "head_size")

EndBlock(st0, name, desc) ==
    LET s1 == Enter(st0, "EndBlock", name, desc)
        s2 == YieldAll(s1, BaseFlags)
    IN  UInt16(s2, "head_size")

\* the names of a comment block's fields, prefixed when it is nested in an
\* Archive or a File block
CommentFlags(nested) ==
    IF nested
    THEN << <<"comment/flags_bits1", 8>>, <<"comment/has_extended_size", 1>>,
            <<"comment/is_ignorable", 1>>, <<"comment/flags_bits2", 6>> >>
    ELSE BaseFlags

CommentNames(nested) ==
    IF nested
    THEN [total_size |-> "comment/total_size",
          uncompressed_size |-> "comment/uncompressed_size",
          required_version |-> "comment/required_version",
          packing_method |-> "comment/packing_method",
          comment_crc16 |-> "comment/comment_crc16",
          comment_data |-> "comment/comment_data"]
    ELSE [total_size |-> "total_size",
          uncompressed_size |-> "uncompressed_size",
          required_version |-> "required_version",
          packing_method |-> "packing_method",
          comment_crc16 |-> "comment_crc16",
          comment_data |-> "comment_data"]

\* `if size-13>0: yield RawBytes(self, "comment_data", size-13, ...)`
CommentData(st, n) ==
    Let(st, LAMBDA s :
        IF Val(s, n.total_size) - 13 > 0
        THEN RawBytes(s, n.comment_data, Val(s, n.total_size) - 13) ELSE s)

\* CommentBlock.createFields; `Byte` is not a name the module defines, so
\* the generator raises NameError when it reaches required_version
CommentFields(st0, nested) ==
    LET n  == CommentNames(nested)
        s1 == YieldAll(st0, CommentFlags(nested))
        s2 == UInt16(s1, n.total_size)
        s3 == UInt16(s2, n.uncompressed_size)
        s4 == Raise(s3, "NameError")
        s5 == UInt8(s4, n.required_version)
        s6 == UInt8(s5, n.packing_method)
        s7 == UInt16(s6, n.comment_crc16)
    IN  CommentData(s7, n)

CommentBlock(st0, name, desc) ==
    CommentFields(Enter(st0, "CommentBlock", name, desc), FALSE)

\* `if size-7>0: yield RawBytes(self, "info_data", size-7, ...)`
InfoData(st) ==
    Let(st, LAMBDA s :
        IF Val(s, "total_size") - 7 > 0
        THEN RawBytes(s, "info_data", Val(s, "total_size") - 7) ELSE s)

\* ExtraInfoBlock.createFields; `size` is the field, not its value, so
\* `size-7` raises TypeError
ExtraInfoBlock(st0, name, desc) ==
    LET s1 == Enter(st0, "ExtraInfoBlock", name, desc)
        s2 == YieldAll(s1, BaseFlags)
        s3 == UInt16(s2, "total_size")
        s4 == Raise(s3, "TypeError")
    IN  InfoData(s4)

ArchiveFlags ==
    << <<"vol", 1>>, <<"has_comment", 1>>, <<"is_locked", 1>>,
       <<"is_solid", 1>>, <<"unused", 1>>,
       <<"has_authenticity_information", 1>>, <<"internal", 10>> >>

\* the comment nested in an Archive or a File block
NestedComment(st) ==
    Let(st, LAMBDA s :
        IF Val(s, "has_comment") # 0 THEN CommentFields(s, TRUE) ELSE s)

ArchiveBlock(st0, name, desc) ==
    LET s1 == Enter(st0, "ArchiveBlock", name, desc)
        s2 == YieldAll(s1, ArchiveFlags)
        s3 == UInt16(s2, "head_size")
        s4 == UInt16(s3, "reserved1")
        s5 == UInt32(s4, "reserved2")
    IN  NestedComment(s5)

FileFlags ==
    << <<"continued_from", 1>>, <<"continued_in", 1>>, <<"encrypted", 1>>,
       <<"has_comment", 1>>, <<"is_solid", 1>>, <<"dictionary_size", 3>>,
       <<"has_extended_size", 1>>, <<"is_ignorable", 1>>, <<"is_large", 1>>,
       <<"is_unicode", 1>>, <<"has_salt", 1>>, <<"uses_file_version", 1>>,
       <<"bexttime", 1>>, <<"bextflag", 1>> >>

\* the file attributes, named after the host OS
FileAttr(st) ==
    Let(st, LAMBDA s :
        IF Val(s, "host_os") = 0 \/ Val(s, "host_os") = 2
        THEN UInt32(s, "file_attr") ELSE UInt32(s, "attr"))

\* `if self["is_unicode"].value: ParserError("Can't handle unicode
\* filenames.")`: the exception is constructed and dropped, not raised
FileUnicode(st) == st

\* `if size > 0: yield String(self, "filename", size, ...)`
FileName(st) ==
    Let(st, LAMBDA s :
        IF Val(s, "filename_length") > 0
        THEN String(s, "filename", Val(s, "filename_length")) ELSE s)

\* the local head_size of FileBlock.createFields when it reaches the
\* extra_data test: the declared header size less what the code has
\* subtracted for the fields it parsed
FileHeadLeft(st) ==
    Val(st, "head_size") - (2 + 1 + 2 + 2)
      - (4 + 4 + 1 + 4 + 4 + 1 + 1 + 2 + 4)
      - (IF Val(st, "is_large") # 0 THEN 8 ELSE 0)
      - (IF Val(st, "has_salt") # 0 THEN 1 ELSE 0)
      - (IF Val(st, "filename_length") > 0 THEN Val(st, "filename_length") ELSE 0)

\* `if head_size > 0: yield RawBytes(self, "extra_data", head_size, ...)`
FileExtraData(st) ==
    Let(st, LAMBDA s :
        IF FileHeadLeft(s) > 0
        THEN RawBytes(s, "extra_data", FileHeadLeft(s)) ELSE s)

FileCompressedData(st) ==
    Let(st, LAMBDA s :
        RawBytes(s, "compressed_data", Val(s, "compressed_size")))

\* FileBlock.createFields
FileBlock(st0, name, desc) ==
    LET s1  == Enter(st0, "FileBlock", name, desc)
        s2  == YieldAll(s1, FileFlags)
        s3  == UInt16(s2, "head_size")
        s4  == UInt32(s3, "compressed_size")
        s5  == UInt32(s4, "uncompressed_size")
        s6  == UInt8(s5, "host_os")
        s7  == UInt32(s6, "file_crc")
        s8  == UInt32(s7, "ftime")
        s9  == UInt8(s8, "version")
        s10 == UInt8(s9, "method")
        s11 == UInt16(s10, "filename_length")
        s12 == FileAttr(s11)
        s13 == YieldIf(s12, "is_large", "large_size", "raw", 64)
        s14 == FileUnicode(s13)
        s15 == YieldIf(s14, "has_salt", "salt", "int", 8)
        s16 == YieldIf(s15, "bexttime", "time_flags", "int", 16)
        s17 == FileName(s16)
        s18 == FileExtraData(s17)
        s19 == FileCompressedData(s18)
    IN  NestedComment(s19)

(***************************************************************************)
(* BlockHead.createFields: the checksum, the type tag, then the variant    *)
(* the tag selects.  SubBlock is not a name the module defines, so tag     *)
(* 0x77 raises NameError.                                                  *)
(***************************************************************************)
Dispatch(s, type) ==
    CASE type = 114 -> MarkerBlock(s, "marker", "Archive header")
      [] type = 115 -> ArchiveBlock(s, "archive", "Archive info")
      [] type = 116 -> FileBlock(s, "file[]", "none")
      [] type = 117 -> CommentBlock(s, "comment", "Comment associated to a previous block")
      [] type = 118 -> ExtraInfoBlock(s, "extra_info", "Extra information")
      [] type = 119 -> Raise(s, "NameError")
      [] type = 120 -> DefaultBlock(s, "recovery", "Recovery block")
      [] type = 121 -> DefaultBlock(s, "recovery", "Signature block")
      [] type = 128 -> DefaultBlock(s, "recovery", "New-format subblock")
      [] type = 123 -> EndBlock(s, "end", "End of archive block")
      [] OTHER      -> DefaultBlock(s, "unknown", "Unknown block")

BlockBody(st) ==
    Let(st, LAMBDA s :
        IF s.err # "none" THEN s ELSE Dispatch(s, Val(s, "type")))

BlockHead(start) ==
    BlockBody(UInt8(UInt16(NewFieldSet(start), "crc16"), "type"))

(***************************************************************************)
(* RarFile: the tags, validate and the block loop of createFields.         *)
(***************************************************************************)
min_size == 88

tags ==
    [id |-> "rar", category |-> "archive", file_ext |-> <<"rar">>,
     mime |-> <<"application/x-rar-compressed", "application/octet-stream">>,
     min_size |-> min_size,
     description |-> "Compressed archive in RAR (Roshal ARchive) format"]

\* stream.sizeGe(n): the stream holds at least n bits
sizeGe(n) == StreamBits >= n

\* RarFile.validate: True, or the text of the complaint; reading the seven
\* bytes of a shorter stream fails in the stream
RarValidateShort ==
    IF Len(stream) < Len(magic) - 1
    THEN [raised |-> TRUE, valid |-> FALSE, text |-> "EndOfStream"]
    ELSE IF SubSeq(stream, 1, Len(magic) - 1) # SubSeq(magic, 1, Len(magic) - 1)
    THEN [raised |-> FALSE, valid |-> FALSE, text |-> "Invalid magic"]
    ELSE [raised |-> FALSE, valid |-> TRUE, text |-> "True"]
RarValidate ==
    IF Len(stream) < Len(magic)
    THEN [raised |-> TRUE, valid |-> FALSE, text |-> "EndOfStream"]
    ELSE IF SubSeq(stream, 1, Len(magic)) # magic
    THEN [raised |-> FALSE, valid |-> FALSE, text |-> "Invalid magic"]
    ELSE [raised |-> FALSE, valid |-> TRUE, text |-> "True"]

None       == [kind |-> "None"]
Str(t)     == [kind |-> "str", text |-> t]
Unicode(t) == [kind |-> "unicode", text |-> t]

\* makePrintable(..., to_unicode=True): the same characters, as unicode
makePrintable(v) == Unicode(v.text)

\* Python's truth value of None and of a string
Truthy(v) == v.kind # "None" /\ v.text # ""

\* Parser.__init__ with validate=True: the `while validate` body runs once
\* and either breaks or raises ValidateError with the complaint.  nbits is
\* the truth value sizeGe returned, which the second sizeGe reads as the
\* number 0 or 1.
ParserValidation ==
    LET nbits == IF sizeGe(tags.min_size) THEN 1 ELSE 0
    IN  IF sizeGe(nbits)
        THEN LET res == RarValidate
             IN  IF res.raised
                 THEN [ok |-> FALSE, error |-> res.text, message |-> "none"]
                 ELSE IF res.valid
                 THEN [ok |-> TRUE, error |-> "none", message |-> "none"]
                 ELSE [ok |-> FALSE, error |-> "ValidateError", message |-> res.text]
        ELSE [ok |-> FALSE, error |-> "ValidateError", message |-> "stream too small"]

ParserInit ==
    /\ pc = "new"
    /\ LET v == IF validate THEN ParserValidation
                ELSE [ok |-> TRUE, error |-> "none", message |-> "none"]
       IN  /\ pc' = IF v.ok THEN "ready" ELSE "invalid"
           /\ error' = v.error
           /\ message' = v.message
    /\ cache' = ("_description" :> None) @@ ("_mime_type" :> None)
    /\ UNCHANGED <<stream, validate, pos, blocks, calls, accesses, result>>

\* the root field set while RarFile.createFields feeds it
Feeding == [pc |-> pc, pos |-> pos, blocks |-> blocks, error |-> error]

\* an end test that also stops after an End block
eofAtEndBlock(f) ==
    \/ f.pos >= StreamBits
    \/ f.blocks # <<>> /\ f.blocks[Len(f.blocks)].class = "EndBlock"

eof(f) == f.pos >= StreamBits

\* the root takes the BlockHead b just fed; an exception raised while
\* feeding b ends the generator
AddBlock(f, block) ==
    Let(block, LAMBDA b :
        IF b.err = "none"
        THEN [f EXCEPT !.pos = b.pos, !.blocks = Append(f.blocks, b)]
        ELSE [f EXCEPT !.pc = "failed", !.error = b.err,
                       !.blocks = Append(f.blocks, b)])

\* one turn of `while not self.eof: yield BlockHead(self, "block[]")`
FeedOne(f) ==
    IF f.pc # "ready" THEN f
    ELSE IF eof(f) THEN [f EXCEPT !.pc = "done"]
    ELSE AddBlock(f, BlockHead(f.pos))

\* feed the root field set to its end, as the lookup of a field name does
RECURSIVE FeedAll(_)
FeedAll(f) == IF f.pc # "ready" THEN f ELSE FeedAll(FeedOne(f))

SetFeeding(f) ==
    /\ pc' = f.pc
    /\ pos' = f.pos
    /\ blocks' = f.blocks
    /\ error' = f.error

FeedBlock ==
    /\ pc = "ready"
    /\ \E f \in {FeedOne(Feeding)} : SetFeeding(f)
    /\ UNCHANGED <<stream, validate, message, cache, calls, accesses, result>>

(***************************************************************************)
(* The derived properties (parser.py getters, RarFile's create* methods).  *)
(* An object o is the instance as a getter sees it: its attribute cache,   *)
(* the create* call counts and the root field set.  A create* method gives *)
(* the root as it left it and either the value returned or the exception   *)
(* raised.                                                                 *)
(***************************************************************************)
Props == {"description", "mime_type", "content_size", "filename_suffix"}

Self == [cache |-> cache, calls |-> calls, feed |-> Feeding]

Returned(v) == [raised |-> FALSE, value |-> v, error |-> "none"]
Raised(e)   == [raised |-> TRUE, value |-> None, error |-> e]

hasattr(o, name) == name \in DOMAIN o.cache

setattr(o, name, v) == [o EXCEPT !.cache = (name :> v) @@ o.cache]

Called(o, prop) == [o EXCEPT !.calls[prop] = @ + 1]

\* the File blocks the root holds, in stream order: file[0] is the first
FileEntries(f) ==
    SelectSeq(f.blocks, LAMBDA b : b.class = "FileBlock" /\ b.err = "none")

\* the outcome of the lookup once the root has been fed: MissingField when
\* there is no File entry or the first one has no filename field
LookupIn(files, g) ==
    IF files = <<>> \/ ~Has(files[1], "filename")
    THEN [feed |-> g, found |-> FALSE, error |-> "MissingField",
          filename |-> <<>>, compressed_data |-> <<>>]
    ELSE [feed |-> g, found |-> TRUE, error |-> "none",
          filename |-> Val(files[1], "filename"),
          compressed_data |-> Val(files[1], "compressed_data")]

LookupFed(g) == LookupIn(FileEntries(g), g)

\* self["file[0]/filename"]: the root is fed to its end and the first File
\* entry is looked up
LookupFile0(f) == LookupFed(FeedAll(f))

\* the table of suffixes by MIME type, self.MIME_TYPES
MIME_TYPES == <<>>

\* "mimetype", as bytes
mimetype == <<109, 105, 109, 101, 116, 121, 112, 101>>

\* HachoirParser.createDescription
createDescription(o) ==
    [feed |-> o.feed, out |-> Returned(Str(tags.description))]

\* HachoirParser.createContentSize
createContentSize(o) == [feed |-> o.feed, out |-> Returned(None)]

\* RarFile.createMimeType, given the outcome of its lookup
MimeTypeOf(l) ==
    [feed |-> l.feed,
     out  |-> IF ~l.found THEN Raised(l.error)
              ELSE IF l.filename = mimetype
              THEN Returned([kind |-> "bytes", text |-> l.compressed_data])
              ELSE Returned(Str("application/rar"))]

createMimeType(o) == MimeTypeOf(LookupFile0(o.feed))

\* RarFile.createFilenameSuffix, given the outcome of its lookup
FilenameSuffixOf(l) ==
    [feed |-> l.feed,
     out  |-> IF ~l.found THEN Raised(l.error)
              ELSE IF l.filename = mimetype /\ l.compressed_data \in DOMAIN MIME_TYPES
              THEN Returned([kind |-> "suffix", text |-> MIME_TYPES[l.compressed_data]])
              ELSE Returned(Str(".rar"))]

createFilenameSuffix(o) == FilenameSuffixOf(LookupFile0(o.feed))

\* the instance after create* ran for prop
After(o, prop, r) == [Called(o, prop) EXCEPT !.feed = r.feed]

\* HachoirParser._getDescription, first read: the try block and its handler
StoreDescription(o, r) ==
    LET d == IF r.out.raised THEN Str(tags.description)
             ELSE IF r.out.value.kind = "str" THEN makePrintable(r.out.value)
             ELSE r.out.value
    IN  [self |-> setattr(After(o, "description", r), "_description", d),
         result |-> Returned(d)]

getDescription(o) ==
    IF o.cache["_description"] = None
    THEN StoreDescription(o, createDescription(o))
    ELSE [self |-> o, result |-> Returned(o.cache["_description"])]

\* HachoirParser._getMimeType, first read: no try around createMimeType
StoreMimeType(o, r) ==
    IF r.out.raised
    THEN [self |-> After(o, "mime_type", r), result |-> r.out]
    ELSE LET m == IF Truthy(r.out.value) THEN r.out.value
                  ELSE Str("application/octet-stream")
         IN  [self |-> setattr(After(o, "mime_type", r), "_mime_type", m),
              result |-> Returned(m)]

getMimeType(o) ==
    IF ~Truthy(o.cache["_mime_type"])
    THEN StoreMimeType(o, createMimeType(o))
    ELSE [self |-> o, result |-> Returned(o.cache["_mime_type"])]

\* HachoirParser._getContentSize, first read: the try block and its handler
StoreContentSize(o, r) ==
    LET c == IF r.out.raised THEN None ELSE r.out.value
    IN  [self |-> setattr(After(o, "content_size", r), "_content_size", c),
         result |-> Returned(c)]

getContentSize(o) ==
    IF ~hasattr(o, "_content_size")
    THEN StoreContentSize(o, createContentSize(o))
    ELSE [self |-> o, result |-> Returned(o.cache["_content_size"])]

\* `return self._filename_extension`
ReturnFilenameExtension(o) ==
    [self |-> o,
     result |-> IF hasattr(o, "_filename_extension")
                THEN Returned(o.cache["_filename_extension"])
                ELSE Raised("AttributeError")]

\* HachoirParser._getFilenameSuffix when the instance has no attribute
\* _filename_suffix: the value goes to _filename_extension, and there is
\* no try around createFilenameSuffix
StoreFilenameSuffix(o, r) ==
    IF r.out.raised
    THEN [self |-> After(o, "filename_suffix", r), result |-> r.out]
    ELSE ReturnFilenameExtension(
             setattr(After(o, "filename_suffix", r), "_filename_extension",
                     r.out.value))

getFilenameSuffix(o) ==
    IF ~hasattr(o, "_filename_suffix")
    THEN StoreFilenameSuffix(o, createFilenameSuffix(o))
    ELSE ReturnFilenameExtension(o)

\* one read of a property of the constructed instance
Access(prop, g) ==
    /\ pc \in {"ready", "done", "failed"}
    /\ accesses[prop] < MaxAccess
    /\ accesses' = [accesses EXCEPT ![prop] = @ + 1]
    /\ cache' = g.self.cache
    /\ calls' = g.self.calls
    /\ SetFeeding(g.self.feed)
    /\ result' = [result EXCEPT ![prop] = g.result]
    /\ UNCHANGED <<stream, validate, message>>

GetDescription    == Access("description", getDescription(Self))
GetMimeType       == Access("mime_type", getMimeType(Self))
GetContentSize    == Access("content_size", getContentSize(Self))
GetFilenameSuffix == Access("filename_suffix", getFilenameSuffix(Self))

(***************************************************************************)
(* The streams the parser is run on.  Each is a head (the marker, a marker *)
(* with a wrong last byte, or none), one block and a tail (nothing, or an  *)
(* End block).  A plain block is a prologue, a 16-bit size, an optional    *)
(* added_size and a zero payload; a File block is laid out field by field. *)
(***************************************************************************)
LE(n, w) == [i \in 1..w |-> (n \div (256 ^ (i - 1))) % 256]

Zeros(k) == [i \in 1..k |-> 0]

Max(a, b) == IF a >= b THEN a ELSE b

Tags == (114..123) \cup {128, 153}

HeadSizes == {0, 7, 20}

PlainBlock(tag, f1, ext, hs, added, payload) ==
    <<0, 0, tag, f1, ext>> \o LE(hs, 2)
      \o (IF ext = 1 THEN LE(added, 4) ELSE <<>>) \o Zeros(payload)

PlainBlocks ==
    { PlainBlock(tag, f1, ext, hs, added, payload) :
        tag \in Tags, f1 \in {0, 2}, ext \in {0},
        hs \in HeadSizes, added \in {0},
        payload \in {0, 6, 13, 20} }
    \cup
    { PlainBlock(tag, 0, 1, hs, added, hs + added) :
        tag \in Tags, hs \in HeadSizes, added \in {0, MaxAdded} }

\* the File block's second flag byte: has_extended_size 1, is_large 4,
\* is_unicode 8, has_salt 16, bexttime 64
FileBlockBytes(cmt, ext, large, uni, salt, xt, os, namelen, extra, delta) ==
    LET fixed == 32 + 8 * large + salt + 2 * xt + namelen
    IN  <<0, 0, 116, 8 * cmt, ext + 4 * large + 8 * uni + 16 * salt + 64 * xt>>
          \o LE(Max(fixed + extra - delta, 0), 2)
          \o LE(1, 4) \o LE(3, 4) \o <<os>> \o LE(0, 4) \o LE(0, 4)
          \o <<29, 51>> \o LE(namelen, 2) \o LE(32, 4)
          \o Zeros(8 * large) \o Zeros(salt) \o Zeros(2 * xt)
          \o [i \in 1..namelen |-> 97] \o Zeros(extra) \o <<255>>
          \o (IF cmt = 1 THEN <<0, 0, 13, 0, 0, 0>> ELSE <<>>)

FileBlocks ==
    { FileBlockBytes(cmt, 0, large, uni, salt, xt, os, namelen, extra, delta) :
        cmt \in {0, 1}, large \in {0, 1}, uni \in {0, 1}, salt \in {0, 1},
        xt \in {0, 1}, os \in {2, 3}, namelen \in {0, MaxNameLen},
        extra \in {0, MaxExtra}, delta \in {0, 3} }
    \cup
    { FileBlockBytes(0, 1, 0, 0, 0, 0, 2, namelen, 0, 0) :
        namelen \in {0, MaxNameLen} }

EndBlockBytes == <<0, 0, 123, 0, 0, 7, 0>>

Heads == {magic, <<82, 97, 114, 33, 26, 7, 1>>, <<>>}

Tails == {<<>>, EndBlockBytes}

Streams ==
    { h \o b \o t : h \in Heads, b \in PlainBlocks \cup FileBlocks, t \in Tails }
    \cup {<<>>, <<82, 97, 114>>, magic}

\* the streams the properties are read on
PropStreams ==
    { magic \o t : t \in Tails }
    \cup { magic \o FileBlockBytes(cmt, 0, 0, 0, 0, 0, 2, MaxNameLen, 0, 0) \o t :
             cmt \in {0, 1}, t \in Tails }
    \cup { PlainBlock(153, 0, 0, 20, 0, 13) }

InitWith(S) ==
    /\ stream \in S
    /\ validate \in BOOLEAN
    /\ pc = "new"
    /\ pos = 0
    /\ blocks = <<>>
    /\ error = "none"
    /\ message = "none"
    /\ cache = <<>>
    /\ calls = [p \in Props |-> 0]
    /\ accesses = [p \in Props |-> 0]
    /\ result = [p \in Props |-> Returned(None)]

\* decoding: construction and the block loop
Init == InitWith(Streams)

Next == ParserInit \/ FeedBlock

Spec == Init /\ [][Next]_vars

\* decoding and the reads of the derived properties
InitProps == InitWith(PropStreams)

NextProps ==
    \/ ParserInit
    \/ FeedBlock
    \/ GetDescription
    \/ GetMimeType
    \/ GetContentSize
    \/ GetFilenameSuffix

SpecProps == InitProps /\ [][NextProps]_vars

\* decoding run to its end: construction returns or raises, and the root
\* field set is fed until its generator returns or raises (decoding is
\* synchronous and single-threaded, nothing suspends it)
LiveStreams ==
    { h \o b \o t :
        h \in Heads,
        b \in { PlainBlock(tag, 0, 0, hs, 0, payload) :
                  tag \in {115, 118, 121, 123, 153}, hs \in {7, 20},
                  payload \in {0, 13, 20} }
             \cup { FileBlockBytes(0, 0, 0, 0, 0, xt, 2, namelen, 0, 0) :
                      xt \in {0, 1}, namelen \in {0, MaxNameLen} },
        t \in Tails }
    \cup {<<>>, <<82, 97, 114>>, magic}

InitLive == InitWith(LiveStreams)

SpecLive ==
    InitLive /\ [][Next]_vars /\ WF_vars(ParserInit) /\ WF_vars(FeedBlock)

(***************************************************************************)
(* What a fed block shows: its fields, their offsets and sizes.            *)
(***************************************************************************)
Blocks == {blocks[i] : i \in DOMAIN blocks}

HasField(b, name) == \E i \in DOMAIN b.fields : b.fields[i].name = name

IndexOf(b, name) == CHOOSE i \in DOMAIN b.fields : b.fields[i].name = name

SizeOf(b, name) == b.fields[IndexOf(b, name)].size

RECURSIVE SizeUpTo(_, _)
SizeUpTo(fields, k) ==
    IF k = 0 THEN 0 ELSE fields[k].size + SizeUpTo(fields, k - 1)

\* the bits of block b that precede its field `name`
BitsBefore(b, name) == SizeUpTo(b.fields, IndexOf(b, name) - 1)

\* the bits of block b the cursor moved over
BitsConsumed(b) == b.pos - b.start

\* the size block b declares for itself, in bytes: the header size, the
\* size extension and, for a File block, the payload
DeclaredSize(b) ==
    Val(b, "head_size")
      + (IF Val(b, "has_extended_size") # 0 /\ Has(b, "added_size")
         THEN Val(b, "added_size") ELSE 0)
      + (IF b.class = "FileBlock" THEN Val(b, "compressed_size") ELSE 0)

\* the first field after a File block's filename: extra_data if there is
\* one, the payload otherwise
AfterHeaderFields(b) ==
    IF HasField(b, "extra_data") THEN "extra_data" ELSE "compressed_data"

\* the exceptions the stream raises, as opposed to the decoder's own code
StreamErrors == {"EndOfStream", "FieldError"}

(***************************************************************************)
(* Claims.                                                                 *)
(***************************************************************************)

\* C1: after every block the dispatcher decoded, the cursor is at the
\* block's start plus the total size the block declares.
C1_CursorAtDeclaredEnd ==
    \A b \in Blocks :
        b.err = "none" /\ Has(b, "head_size")
            => BitsConsumed(b) = 8 * DeclaredSize(b)

\* C2: for every File block read up to its payload, the remaining-header
\* counter equals head_size less the bytes consumed since the block start,
\* and when it is positive exactly that many extra_data bytes are read, so
\* that the payload starts head_size bytes after the block start.
C2_FileHeaderAccounting ==
    \A b \in Blocks :
        b.class = "FileBlock" /\ HasField(b, "compressed_data")
            => /\ 8 * FileHeadLeft(b)
                    = 8 * Val(b, "head_size") - BitsBefore(b, AfterHeaderFields(b))
               /\ FileHeadLeft(b) > 0
                    => /\ HasField(b, "extra_data")
                       /\ SizeOf(b, "extra_data") = 8 * FileHeadLeft(b)
                       /\ BitsBefore(b, "compressed_data") = 8 * Val(b, "head_size")

\* C3: a block whose tag is not in the table is decoded by the Default
\* variant without raising, and its opaque payload is the declared size
\* less 7 bytes when that is positive, nothing otherwise.
C3_UnknownTagPayload ==
    \A b \in Blocks :
        Has(b, "type") /\ Val(b, "type") \notin DOMAIN block_name
            => /\ b.class = "DefaultBlock"
               /\ b.err \in {"none"} \cup StreamErrors
               /\ b.err = "none"
                    => IF DeclaredSize(b) - 7 > 0
                       THEN /\ HasField(b, "unknown")
                            /\ SizeOf(b, "unknown") = 8 * (DeclaredSize(b) - 7)
                       ELSE ~HasField(b, "unknown")

\* the variant each tag of the table names
VariantOfTag ==
    (114 :> "MarkerBlock") @@ (115 :> "ArchiveBlock") @@ (116 :> "FileBlock") @@
    (117 :> "CommentBlock") @@ (118 :> "ExtraInfoBlock") @@ (119 :> "SubBlock") @@
    (120 :> "Recovery block") @@ (121 :> "Signature block") @@
    (122 :> "New-format subblock") @@ (123 :> "EndBlock")

\* C4: each of the ten tags of the table is decoded as its own variant
\* without an error of the decoder's own, and the unknown-block fallback is
\* taken exactly for the tags that are not in the table.
C4_DispatchByTable ==
    \A b \in Blocks :
        Has(b, "type")
            => /\ Val(b, "type") \in DOMAIN block_name
                    => /\ VariantOfTag[Val(b, "type")] \in {b.class, b.desc}
                       /\ b.err \in {"none"} \cup StreamErrors
               /\ b.name = "unknown" <=> Val(b, "type") \notin DOMAIN block_name

\* C5: each derived property is computed exactly once, on its first read.
C5_ComputedOnce ==
    \A p \in Props : calls[p] = IF accesses[p] > 0 THEN 1 ELSE 0

\* C6: no read of a derived property raises: a failed computation gives
\* the default, which is cached.
C6_FailureNotPropagated ==
    \A p \in Props : ~result[p].raised

BadMagic == Len(stream) >= Len(magic) /\ SubSeq(stream, 1, Len(magic)) # magic

\* C7 as stated: a stream that does not start with the magic is always
\* refused with an invalid-signature error and no block is decoded.
C7_AlwaysChecksMagic ==
    BadMagic /\ pc # "new" => pc = "invalid" /\ blocks = <<>>

\* C7, amended: with validate=True a stream of at least seven bytes that
\* does not start with the magic is refused by the constructor with
\* ValidateError "Invalid magic" and no block is decoded; with
\* validate=False the constructor refuses nothing.
C7_ChecksMagicWhenValidating ==
    /\ validate /\ BadMagic /\ pc # "new"
         => /\ pc = "invalid"
            /\ error = "ValidateError"
            /\ message = "Invalid magic"
            /\ blocks = <<>>
    /\ ~validate => pc # "invalid"
    /\ pc = "invalid" => BadMagic \/ Len(stream) < Len(magic)

C7_Witness ==
    validate /\ BadMagic /\ pc = "invalid" /\ message = "Invalid magic"

\* C8: a File block whose is_unicode flag is set fails to decode: it has
\* no filename, extra_data or compressed_data field.
C8_UnicodeRejected ==
    \A b \in Blocks :
        b.class = "FileBlock" /\ Val(b, "is_unicode") = 1
            => /\ b.err # "none"
               /\ ~HasField(b, "filename")
               /\ ~HasField(b, "extra_data")
               /\ ~HasField(b, "compressed_data")

\* C9: a File block whose declared header is smaller than the fields read
\* from it (the remaining-header counter is negative) is an error: its
\* payload is not decoded.
C9_NegativeRemainderIsError ==
    \A b \in Blocks :
        b.class = "FileBlock" /\ Has(b, "filename_length") /\ FileHeadLeft(b) < 0
            => b.err # "none" /\ ~HasField(b, "compressed_data")

\* the field read right after the block's 16-bit size is added_size
AddedSizeFollows(b, size) ==
    /\ HasField(b, "added_size")
    /\ IndexOf(b, "added_size") = IndexOf(b, size) + 1
    /\ SizeOf(b, "added_size") = 32

SizeField(b) == IF HasField(b, "total_size") THEN "total_size" ELSE "head_size"

\* C10 as stated: in every variant but Marker and End a 32-bit added_size
\* follows the 16-bit size exactly when has_extended_size is set.
C10_AddedSizeEveryVariant ==
    \A b \in Blocks :
        (/\ b.class \notin {"none", "MarkerBlock", "EndBlock"}
         /\ b.err = "none"
         /\ Has(b, "has_extended_size"))
            => (Val(b, "has_extended_size") = 1 <=> AddedSizeFollows(b, SizeField(b)))

\* the bytes of the "unknown" payload of a Default block
PayloadBytes(b) ==
    IF HasField(b, "unknown") THEN SizeOf(b, "unknown") \div 8 ELSE 0

\* C10, amended: only the blocks decoded by DefaultBlock read a size
\* extension.  When has_extended_size is set, the 32-bit added_size is read
\* right after the 16-bit head_size and the payload is head_size +
\* added_size bytes; when it is clear, no added_size is read and the
\* payload is head_size bytes.  The other variants never read added_size.
C10_DefaultAddedSize ==
    \A b \in Blocks :
        /\ b.class # "DefaultBlock" => ~HasField(b, "added_size")
        /\ b.class = "DefaultBlock" /\ Has(b, "head_size")
             => IF Val(b, "has_extended_size") = 1
                THEN /\ b.err \in {"none", "EndOfStream"}
                     /\ b.err = "none"
                          => /\ AddedSizeFollows(b, "head_size")
                             /\ PayloadBytes(b)
                                  = Val(b, "head_size") + Val(b, "added_size")
                ELSE /\ ~HasField(b, "added_size")
                     /\ b.err \in {"none", "EndOfStream"}
                     /\ b.err = "none" => PayloadBytes(b) = Val(b, "head_size")

C10_Witness ==
    \E b \in Blocks :
        /\ b.class = "DefaultBlock"
        /\ b.err = "none"
        /\ Val(b, "has_extended_size") = 1
        /\ Val(b, "added_size") > 0
        /\ HasField(b, "unknown")

\* no block fed so far raised
NoBlockRaised == \A b \in Blocks : b.err = "none"

\* the blocks are appended in stream order: the first starts at offset 0,
\* each next one where the one before it ended
InStreamOrder ==
    \A i \in DOMAIN blocks :
        blocks[i].start = (IF i = 1 THEN 0 ELSE blocks[i - 1].pos)

\* the loop is over: construction refused the stream, or the generator
\* returned or raised
Stopped == pc \in {"invalid", "done", "failed"}

C11_LoopSafety ==
    /\ InStreamOrder
    /\ \A b \in Blocks : b.err = "none" => BitsConsumed(b) >= 8 * 7
    /\ pc = "done" => NoBlockRaised /\ pos = StreamBits
    /\ pc = "failed" => blocks # <<>> /\ blocks[Len(blocks)].err # "none"
    /\ pc = "ready" => NoBlockRaised

\* C11: the block loop terminates on every stream; every block decoded
\* without raising moves the cursor by at least 7 bytes, the blocks are
\* appended in stream order, and the loop ends without an error exactly
\* with the cursor at end-of-stream, whether or not an End block was seen:
\* it never ends at an End block that is followed by more bytes, and it
\* ends only by a raising block decode otherwise.
C11_LoopTerminates ==
    /\ []C11_LoopSafety
    /\ [][pc' = "done" => pc = "ready" /\ pos = StreamBits /\ blocks' = blocks]_vars
    /\ <>Stopped

\* the loop ran to end-of-stream past an End block that was not the last
\* block of the stream
C11_Witness ==
    /\ pc = "done"
    /\ pos = StreamBits
    /\ \E i \in DOMAIN blocks :
          /\ i < Len(blocks)
          /\ blocks[i].class = "EndBlock"
          /\ blocks[i].err = "none"

====
